---- MODULE Spec2Model ----
(***************************************************************************)
(* Model of fonduer/utils/udf.py: UDFRunner (apply, apply_st, apply_mt),   *)
(* the UDF worker process (run) and the feeder async_fill_input_queue.     *)
(* One call of UDFRunner.apply is modelled from its entry to its return or *)
(* to the exception that leaves it.                                        *)
(***************************************************************************)
EXTENDS Integers, Sequences, FiniteSets, TLC

\* ---------------------------------------------------------------- bounds
\* largest len(xs)
MaxN == 2
\* largest number of tuples parse_by_index yields for one index
MaxYield == 2
\* largest parallelism (constructor default or call argument)
MaxPar == 2
\* largest number of tuples parse_by_index yields over a whole collection
MaxTasks == 2

\* ------------------------------------------------------------- constants
\* UDF.TASK_DONE and UDF.QUEUE_CLOSED
TASK_DONE == "done"
QUEUE_CLOSED == "QUEUECLOSED"

\* a value on out_queue that is not UDF.TASK_DONE
FOREIGN == "other"

\* worker_id values of the UDF objects one call can construct
Workers == 0 .. (MaxPar - 1)

\* positional indices of a collection of length n
Indices(n) == 0 .. (n - 1)

\* the pass-through keyword arguments of a call: a set of <<key, value>>
KwargChoices == { {}, {<<"split", "1">>} }

\* Python's str(bool), the value bound to the key "clear"
BoolStr(b) == IF b THEN "True" ELSE "False"

\* what == sees of a task tuple the preprocessor yields: an opaque item with
\* its position, which is not a string
TaskVal == "doc"

\* an item of in_queue: val is the Python value that == compares; index and
\* k say which tuple of which positional index it is (-1 for the sentinel)
Task(i, k) == [val |-> TaskVal, index |-> i, k |-> k]
Token == [val |-> QUEUE_CLOSED, index |-> -1, k |-> -1]

VARIABLES
    \* UDFRunner.__init__ and the global Meta
    self_parallelism,   \* self.parallelism
    postgres,           \* _meta.postgres
    udfs,               \* self.udfs: sequence of worker ids
    pb,                 \* self.pb: "None", "open" or "closed"
    pb_n,               \* number of pb.update(1) calls
    \* the arguments of the apply call
    xs_len,             \* len(xs)
    yields,             \* yields[i]: how many tuples parse_by_index(i) yields
    clear,              \* clear
    par_given,          \* whether parallelism is given and not None
    par_arg,            \* the parallelism given (0 when not given)
    progress_bar,       \* progress_bar
    kwargs,             \* **kwargs
    \* the Runner's control state
    pc,                 \* where the Runner is in apply / apply_st / apply_mt
    error,              \* the exception that left apply, or "none"
    mode,               \* "none", "st" or "mt": which of apply_st / apply_mt ran
    parallelism,        \* the local parallelism of apply (line 65)
    clear_calls,        \* number of self.clear(**kwargs) calls
    clear_kwargs,       \* the keyword arguments clear() was called with
    loop_i,             \* index of the Runner's current for loop
    count_parsed,       \* count_parsed of apply_mt
    \* channels and pool
    queues,             \* TRUE once in_queue and out_queue exist
    in_queue,           \* manager.Queue(): FIFO of Task / Token
    out_queue,          \* JoinableQueue(): FIFO of strings
    pool,               \* "none", "open", "closed" or "joined"
    feed_pc,            \* feed_pc[i]: "pending", "running", "done"
    fed,                \* fed[i]: tuples of index i put on in_queue so far
    \* the UDF objects
    w_pc,               \* w_pc[w]: position of UDF w (see WorkerStates)
    w_x,                \* w_x[w]: the item worker w holds
    session_added,      \* session_added[w]: items whose results w added
    session_commits,    \* session_commits[w]: session.commit() calls
    session_closes,     \* session_closes[w]: session.close() calls
    apply_kwargs,       \* apply_kwargs[w]: UDF.apply_kwargs
    \* history
    seen_kwargs,        \* set of keyword-argument sets apply() was called with
    acks_emitted,       \* number of out_queue.put(TASK_DONE) by workers
    token_puts,         \* number of in_queue.put(QUEUE_CLOSED) by the Runner
    token_obs,          \* token_obs[w]: times w received QUEUE_CLOSED
    foreign_got         \* non-TASK_DONE messages the Runner took off out_queue

inputs == <<self_parallelism, postgres, xs_len, yields, clear, par_given,
            par_arg, progress_bar, kwargs>>
runner == <<udfs, pb, pb_n, pc, error, mode, parallelism, clear_calls,
            clear_kwargs, loop_i, count_parsed>>
channels == <<queues, in_queue, out_queue, pool, feed_pc, fed>>
workers == <<w_pc, w_x, session_added, session_commits, session_closes,
             apply_kwargs>>
history == <<seen_kwargs, acks_emitted, token_puts, token_obs,
             foreign_got>>
vars == <<inputs, runner, channels, workers, history>>

WorkerStates == {"absent", "new", "idle", "busy", "applied", "relay",
                 "exited", "committed", "stopped", "crashed", "terminated"}

\* a UDF process that was started (Process.start) and has not ended
Alive(w) == w_pc[w] \in {"idle", "busy", "applied", "relay", "exited",
                         "committed"}
\* a UDF process that was started
Started(w) == w_pc[w] \notin {"absent", "new"}

\* ------------------------------------------------------------------ Init
\* UDFRunner.__init__: no UDF, no progress bar; the call arguments are not
\* yet bound (placeholders until Apply).
Init ==
    /\ self_parallelism \in 1 .. MaxPar
    /\ postgres \in BOOLEAN
    /\ udfs = <<>>
    /\ pb = "None"
    /\ pb_n = 0
    /\ xs_len = 0
    /\ yields = <<>>
    /\ clear = FALSE
    /\ par_given = FALSE
    /\ par_arg = 0
    /\ progress_bar = FALSE
    /\ kwargs = {}
    /\ pc = "ready"
    /\ error = "none"
    /\ mode = "none"
    /\ parallelism = 0
    /\ clear_calls = 0
    /\ clear_kwargs = {}
    /\ loop_i = 0
    /\ count_parsed = 0
    /\ queues = FALSE
    /\ in_queue = <<>>
    /\ out_queue = <<>>
    /\ pool = "none"
    /\ feed_pc = <<>>
    /\ fed = <<>>
    /\ w_pc = [w \in Workers |-> "absent"]
    /\ w_x = [w \in Workers |-> Token]
    /\ session_added = [w \in Workers |-> <<>>]
    /\ session_commits = [w \in Workers |-> 0]
    /\ session_closes = [w \in Workers |-> 0]
    /\ apply_kwargs = [w \in Workers |-> {}]
    /\ seen_kwargs = {}
    /\ acks_emitted = 0
    /\ token_puts = 0
    /\ token_obs = [w \in Workers |-> 0]
    /\ foreign_got = 0

\* ------------------------------------------------------------ UDFRunner.apply
\* the call: binds xs (its length and what its parse_by_index yields), clear,
\* parallelism, progress_bar and **kwargs
Apply(n, ys, clr, given, par, pbar, kw) ==
    /\ pc = "ready"
    /\ xs_len' = n
    /\ yields' = ys
    /\ clear' = clr
    /\ par_given' = given
    /\ par_arg' = par
    /\ progress_bar' = pbar
    /\ kwargs' = kw
    /\ pc' = "clear"
    /\ UNCHANGED <<self_parallelism, postgres, udfs, pb, pb_n, error, mode,
                   parallelism, clear_calls, clear_kwargs, loop_i,
                   count_parsed, channels, workers, history>>

\* RunnerClear with the backend check of apply_mt done first: a pooled call on
\* a backend without concurrent connections is rejected before clear()
RunnerClear_CheckFirst ==
    /\ pc = "clear"
    /\ IF /\ ~postgres
          /\ (IF par_given /\ par_arg # 0 THEN par_arg ELSE self_parallelism)
               >= 2
         THEN /\ pc' = "raised"
              /\ error' = "config"
              /\ UNCHANGED <<clear_calls, clear_kwargs>>
         ELSE /\ IF clear
                   THEN clear_calls' = clear_calls + 1 /\ clear_kwargs' = kwargs
                   ELSE UNCHANGED <<clear_calls, clear_kwargs>>
              /\ pc' = "pb_setup"
              /\ UNCHANGED error
    /\ UNCHANGED <<inputs, udfs, pb, pb_n, mode, parallelism, loop_i,
                   count_parsed, channels, workers, history>>

\* RunnerClear with the call of clear() left out
RunnerClear_Skipped ==
    /\ pc = "clear"
    /\ pc' = "pb_setup"
    /\ UNCHANGED <<inputs, udfs, pb, pb_n, error, mode, parallelism, loop_i,
                   count_parsed, channels, workers, history, clear_calls,
                   clear_kwargs>>

\* lines 53-54: if clear: self.clear(**kwargs)
RunnerClear ==
    /\ pc = "clear"
    /\ IF clear
         THEN clear_calls' = clear_calls + 1 /\ clear_kwargs' = kwargs
         ELSE UNCHANGED <<clear_calls, clear_kwargs>>
    /\ pc' = "pb_setup"
    /\ UNCHANGED <<inputs, udfs, pb, pb_n, error, mode, parallelism, loop_i,
                   count_parsed, channels, workers, history>>

\* lines 60-62: the progress bar is created when asked for (xs has a length)
RunnerSetupPb ==
    /\ pc = "pb_setup"
    /\ IF progress_bar
         THEN pb' = "open" /\ pb_n' = 0
         ELSE UNCHANGED <<pb, pb_n>>
    /\ pc' = "select"
    /\ UNCHANGED <<inputs, udfs, error, mode, parallelism, clear_calls,
                   clear_kwargs, loop_i, count_parsed, channels, workers,
                   history>>

\* EffectiveParallelism testing the argument against None instead of its truth
EffectiveParallelism_NotNone ==
    IF par_given THEN par_arg ELSE self_parallelism

\* line 65: parallelism = parallelism if parallelism else self.parallelism
\* (None and 0 are both falsy)
EffectiveParallelism ==
    IF par_given /\ par_arg # 0 THEN par_arg ELSE self_parallelism

\* line 67: if parallelism < 2: apply_st else: apply_mt
SelectMode(p) == IF p < 2 THEN "st" ELSE "mt"

\* lines 65-70
RunnerSelect ==
    /\ pc = "select"
    /\ parallelism' = EffectiveParallelism
    /\ mode' = SelectMode(parallelism')
    /\ pc' = IF mode' = "st" THEN "st_new" ELSE "mt_check"
    /\ UNCHANGED <<inputs, udfs, pb, pb_n, error, clear_calls, clear_kwargs,
                   loop_i, count_parsed, channels, workers, history>>

\* ForwardedKwargs without the clear=clear of lines 68 and 70
ForwardedKwargs_Verbatim == kwargs

\* lines 68 and 70: apply_st(xs, clear=clear, **kwargs) and
\* apply_mt(xs, parallelism, clear=clear, **kwargs): clear is not a named
\* parameter of either, so it lands in their **kwargs
ForwardedKwargs == kwargs \cup {<<"clear", BoolStr(clear)>>}

\* lines 73-75: close the progress bar, return
RunnerClosePb ==
    /\ pc = "pb_close"
    /\ pb' = IF pb # "None" THEN "closed" ELSE pb
    /\ pc' = "returned"
    /\ UNCHANGED <<inputs, udfs, pb_n, error, mode, parallelism, clear_calls,
                   clear_kwargs, loop_i, count_parsed, channels, workers,
                   history>>

\* self.pb.update(1) when self.pb is not None
PbUpdated == IF pb # "None" THEN pb_n + 1 ELSE pb_n

\* --------------------------------------------------------- UDFRunner.apply_st
\* line 82: udf = self.udf_class(**self.udf_init_kwargs); UDF.__init__ gives
\* it worker_id 0 and a session of its own; it is never started
StNew ==
    /\ pc = "st_new"
    /\ w_pc' = [w_pc EXCEPT ![0] = "new"]
    /\ loop_i' = 0
    /\ pc' = "st_loop"
    /\ UNCHANGED <<inputs, udfs, pb, pb_n, error, mode, parallelism,
                   clear_calls, clear_kwargs, count_parsed, channels, w_x,
                   session_added, session_commits, session_closes,
                   apply_kwargs, history>>

\* lines 85-89: one iteration of for x in xs; udf.apply(x, **kwargs) either
\* returns its results, which are added to udf.session, or raises
StStep(ok) ==
    /\ pc = "st_loop"
    /\ loop_i < xs_len
    /\ pb_n' = PbUpdated
    /\ seen_kwargs' = seen_kwargs \cup {ForwardedKwargs}
    /\ IF ok
         THEN /\ session_added' =
                   [session_added EXCEPT ![0] = Append(@, Task(loop_i, 0))]
              /\ loop_i' = loop_i + 1
              /\ UNCHANGED <<pc, error>>
         ELSE /\ pc' = "raised"
              /\ error' = "transformation"
              /\ UNCHANGED <<session_added, loop_i>>
    /\ UNCHANGED <<inputs, udfs, pb, mode, parallelism, clear_calls,
                   clear_kwargs, count_parsed, channels, w_pc, w_x,
                   session_commits, session_closes, apply_kwargs,
                   acks_emitted, token_puts, token_obs, foreign_got>>

\* StCommit inside the loop: the commit may come before the last item
StCommit_Early ==
    /\ pc = "st_loop"
    /\ loop_i <= xs_len
    /\ session_commits' = [session_commits EXCEPT ![0] = @ + 1]
    /\ pc' = "pb_close"
    /\ UNCHANGED <<inputs, udfs, pb, pb_n, error, mode, parallelism,
                   clear_calls, clear_kwargs, loop_i, count_parsed, channels,
                   w_pc, w_x, session_added, session_closes, apply_kwargs,
                   history>>

\* line 92: udf.session.commit() after the loop
StCommit ==
    /\ pc = "st_loop"
    /\ loop_i = xs_len
    /\ session_commits' = [session_commits EXCEPT ![0] = @ + 1]
    /\ pc' = "pb_close"
    /\ UNCHANGED <<inputs, udfs, pb, pb_n, error, mode, parallelism,
                   clear_calls, clear_kwargs, loop_i, count_parsed, channels,
                   w_pc, w_x, session_added, session_closes, apply_kwargs,
                   history>>

\* --------------------------------------------------------- UDFRunner.apply_mt
\* MtCheck without the check of _meta.postgres
MtCheck_Unchecked ==
    /\ pc = "mt_check"
    /\ pc' = "mt_queues"
    /\ UNCHANGED <<inputs, udfs, pb, pb_n, error, mode, parallelism,
                   clear_calls, clear_kwargs, loop_i, count_parsed, channels,
                   workers, history>>

\* lines 96-97: the backend check, before anything else of apply_mt
MtCheck ==
    /\ pc = "mt_check"
    /\ IF postgres
         THEN pc' = "mt_queues" /\ UNCHANGED error
         ELSE pc' = "raised" /\ error' = "config"
    /\ UNCHANGED <<inputs, udfs, pb, pb_n, mode, parallelism, clear_calls,
                   clear_kwargs, loop_i, count_parsed, channels, workers,
                   history>>

\* lines 100-106: manager.Queue(), JoinableQueue(), total_count = len(xs)
MtQueues ==
    /\ pc = "mt_queues"
    /\ queues' = TRUE
    /\ in_queue' = <<>>
    /\ out_queue' = <<>>
    /\ loop_i' = 0
    /\ pc' = "mt_construct"
    /\ UNCHANGED <<inputs, udfs, pb, pb_n, error, mode, parallelism,
                   clear_calls, clear_kwargs, count_parsed, pool, feed_pc,
                   fed, workers, history>>

\* lines 109-117: one iteration of for i in range(parallelism): a UDF with
\* worker_id i on the two queues, its apply_kwargs set, appended to self.udfs
MtConstruct ==
    /\ pc = "mt_construct"
    /\ loop_i < parallelism
    /\ w_pc' = [w_pc EXCEPT ![loop_i] = "new"]
    /\ apply_kwargs' = [apply_kwargs EXCEPT ![loop_i] = ForwardedKwargs]
    /\ udfs' = Append(udfs, loop_i)
    /\ IF loop_i + 1 < parallelism
         THEN loop_i' = loop_i + 1 /\ UNCHANGED pc
         ELSE loop_i' = 0 /\ pc' = "mt_start"
    /\ UNCHANGED <<inputs, pb, pb_n, error, mode, parallelism, clear_calls,
                   clear_kwargs, count_parsed, channels, w_x, session_added,
                   session_commits, session_closes, history>>

\* lines 120-121: one iteration of for udf in self.udfs: udf.start()
MtStart ==
    /\ pc = "mt_start"
    /\ loop_i < Len(udfs)
    /\ w_pc' = [w_pc EXCEPT ![udfs[loop_i + 1]] = "idle"]
    /\ IF loop_i + 1 < Len(udfs)
         THEN loop_i' = loop_i + 1 /\ UNCHANGED pc
         ELSE loop_i' = 0 /\ pc' = "mt_pool"
    /\ UNCHANGED <<inputs, udfs, pb, pb_n, error, mode, parallelism,
                   clear_calls, clear_kwargs, count_parsed, channels, w_x,
                   session_added, session_commits, session_closes,
                   apply_kwargs, history>>

\* lines 124-128: Pool(parallelism), map_async over range(total_count),
\* count_parsed = 0
MtPool ==
    /\ pc = "mt_pool"
    /\ pool' = "open"
    /\ feed_pc' = [i \in Indices(xs_len) |-> "pending"]
    /\ fed' = [i \in Indices(xs_len) |-> 0]
    /\ count_parsed' = 0
    /\ pc' = "mt_drain"
    /\ UNCHANGED <<inputs, udfs, pb, pb_n, error, mode, parallelism,
                   clear_calls, clear_kwargs, loop_i, queues, in_queue,
                   out_queue, workers, history>>

\* MtDrainGet without the loop condition count_parsed < total_count
MtDrainGet_Unbounded ==
    /\ pc = "mt_drain"
    /\ out_queue # <<>>
    /\ out_queue' = Tail(out_queue)
    /\ IF Head(out_queue) = TASK_DONE
         THEN /\ count_parsed' = count_parsed + 1
              /\ pb_n' = PbUpdated
              /\ UNCHANGED <<pc, error, foreign_got>>
         ELSE /\ pc' = "raised"
              /\ error' = "protocol"
              /\ foreign_got' = foreign_got + 1
              /\ UNCHANGED <<count_parsed, pb_n>>
    /\ UNCHANGED <<inputs, udfs, pb, mode, parallelism, clear_calls,
                   clear_kwargs, loop_i, queues, in_queue, pool, feed_pc, fed,
                   workers, seen_kwargs, acks_emitted, token_puts, token_obs>>

\* MtDrainGet that skips a message that is not TASK_DONE instead of raising
MtDrainGet_Tolerant ==
    /\ pc = "mt_drain"
    /\ count_parsed < xs_len
    /\ out_queue # <<>>
    /\ out_queue' = Tail(out_queue)
    /\ IF Head(out_queue) = TASK_DONE
         THEN /\ count_parsed' = count_parsed + 1
              /\ pb_n' = PbUpdated
         ELSE UNCHANGED <<count_parsed, pb_n>>
    /\ UNCHANGED <<inputs, udfs, pb, pc, error, mode, parallelism, clear_calls,
                   clear_kwargs, loop_i, queues, in_queue, pool, feed_pc, fed,
                   workers, history>>

\* lines 129-137: one iteration of the drain loop: y = out_queue.get()
\* blocks until a message is there; TASK_DONE counts, anything else raises
MtDrainGet ==
    /\ pc = "mt_drain"
    /\ count_parsed < xs_len
    /\ out_queue # <<>>
    /\ out_queue' = Tail(out_queue)
    /\ IF Head(out_queue) = TASK_DONE
         THEN /\ count_parsed' = count_parsed + 1
              /\ pb_n' = PbUpdated
              /\ UNCHANGED <<pc, error, foreign_got>>
         ELSE /\ pc' = "raised"
              /\ error' = "protocol"
              /\ foreign_got' = foreign_got + 1
              /\ UNCHANGED <<count_parsed, pb_n>>
    /\ UNCHANGED <<inputs, udfs, pb, mode, parallelism, clear_calls,
                   clear_kwargs, loop_i, queues, in_queue, pool, feed_pc, fed,
                   workers, seen_kwargs, acks_emitted, token_puts, token_obs>>

\* lines 129 and 139: the loop ends when count_parsed reaches total_count;
\* pool.close()
MtDrainExit ==
    /\ pc = "mt_drain"
    /\ ~(count_parsed < xs_len)
    /\ pool' = "closed"
    /\ pc' = "mt_pool_join"
    /\ UNCHANGED <<inputs, udfs, pb, pb_n, error, mode, parallelism,
                   clear_calls, clear_kwargs, loop_i, count_parsed, queues,
                   in_queue, out_queue, feed_pc, fed, workers, history>>

\* MtPoolJoin that does not wait for the feeder tasks
MtPoolJoin_NoWait ==
    /\ pc = "mt_pool_join"
    /\ pool' = "joined"
    /\ pc' = "mt_shutdown"
    /\ UNCHANGED <<inputs, udfs, pb, pb_n, error, mode, parallelism,
                   clear_calls, clear_kwargs, loop_i, count_parsed, queues,
                   in_queue, out_queue, feed_pc, fed, workers, history>>

\* line 140: pool.join() returns when every feeder task has returned
MtPoolJoin ==
    /\ pc = "mt_pool_join"
    /\ \A i \in Indices(xs_len) : feed_pc[i] = "done"
    /\ pool' = "joined"
    /\ pc' = "mt_shutdown"
    /\ UNCHANGED <<inputs, udfs, pb, pb_n, error, mode, parallelism,
                   clear_calls, clear_kwargs, loop_i, count_parsed, queues,
                   in_queue, out_queue, feed_pc, fed, workers, history>>

\* line 141: in_queue.put(UDF.QUEUE_CLOSED)
MtShutdown ==
    /\ pc = "mt_shutdown"
    /\ in_queue' = Append(in_queue, Token)
    /\ token_puts' = token_puts + 1
    /\ loop_i' = 0
    /\ pc' = "mt_join"
    /\ UNCHANGED <<inputs, udfs, pb, pb_n, error, mode, parallelism,
                   clear_calls, clear_kwargs, count_parsed, queues, out_queue,
                   pool, feed_pc, fed, workers, seen_kwargs, acks_emitted,
                   token_obs, foreign_got>>

\* lines 143-144: one iteration of for udf in self.udfs: udf.join(), which
\* returns when the process has ended
MtJoin ==
    /\ pc = "mt_join"
    /\ loop_i < Len(udfs)
    /\ ~Alive(udfs[loop_i + 1])
    /\ IF loop_i + 1 < Len(udfs)
         THEN loop_i' = loop_i + 1 /\ UNCHANGED pc
         ELSE loop_i' = 0 /\ pc' = "mt_terminate"
    /\ UNCHANGED <<inputs, udfs, pb, pb_n, error, mode, parallelism,
                   clear_calls, clear_kwargs, count_parsed, channels, workers,
                   history>>

\* lines 147-149: udf.terminate() for every udf, then self.udfs = []
MtTerminate ==
    /\ pc = "mt_terminate"
    /\ w_pc' = [w \in Workers |->
                  IF (\E j \in 1 .. Len(udfs) : udfs[j] = w) /\ Alive(w)
                    THEN "terminated" ELSE w_pc[w]]
    /\ udfs' = <<>>
    /\ pc' = "pb_close"
    /\ UNCHANGED <<inputs, pb, pb_n, error, mode, parallelism, clear_calls,
                   clear_kwargs, loop_i, count_parsed, channels, w_x,
                   session_added, session_commits, session_closes,
                   apply_kwargs, history>>

\* ------------------------------------------------- async_fill_input_queue
\* lines 124-126 and 25-28: a process of the pool takes the next index; the
\* pool has `parallelism` processes and hands the indices out in order. When
\* parse_by_index yields nothing for the index the call returns at once.
FeederTake(i) ==
    /\ pool \in {"open", "closed"}
    /\ feed_pc[i] = "pending"
    /\ \A j \in Indices(xs_len) : j < i => feed_pc[j] # "pending"
    /\ Cardinality({j \in Indices(xs_len) : feed_pc[j] = "running"})
         < parallelism
    /\ feed_pc' = [feed_pc EXCEPT
                     ![i] = IF yields[i] = 0 THEN "done" ELSE "running"]
    /\ UNCHANGED <<inputs, runner, queues, in_queue, out_queue, pool, fed,
                   workers, history>>

\* lines 28-29: input_queue.put(doc_tuple) for the next tuple that
\* preprocessor.parse_by_index(doc_index) yields; after the last tuple the
\* generator is exhausted and async_fill_input_queue returns
FeederPut(i) ==
    /\ pool \in {"open", "closed"}
    /\ feed_pc[i] = "running"
    /\ fed[i] < yields[i]
    /\ in_queue' = Append(in_queue, Task(i, fed[i]))
    /\ fed' = [fed EXCEPT ![i] = @ + 1]
    /\ feed_pc' = [feed_pc EXCEPT
                     ![i] = IF fed[i] + 1 = yields[i] THEN "done" ELSE @]
    /\ UNCHANGED <<inputs, runner, queues, out_queue, pool, workers, history>>

\* ------------------------------------------------------------------ UDF.run
\* WorkerGet that reads the head of in_queue without removing a task
WorkerGet_Peek(w) ==
    /\ w_pc[w] = "idle"
    /\ IF in_queue = <<>>
         THEN UNCHANGED <<in_queue, w_pc, w_x, token_obs>>
         ELSE /\ w_x' = [w_x EXCEPT ![w] = Head(in_queue)]
              /\ IF Head(in_queue).val = QUEUE_CLOSED
                   THEN /\ in_queue' = Tail(in_queue)
                        /\ w_pc' = [w_pc EXCEPT ![w] = "relay"]
                        /\ token_obs' = [token_obs EXCEPT ![w] = @ + 1]
                   ELSE /\ w_pc' = [w_pc EXCEPT ![w] = "busy"]
                        /\ UNCHANGED <<in_queue, token_obs>>
    /\ UNCHANGED <<inputs, runner, queues, out_queue, pool, feed_pc, fed,
                   session_added, session_commits, session_closes,
                   apply_kwargs, seen_kwargs, acks_emitted, token_puts,
                   foreign_got>>

\* line 182: x = self.in_queue.get(True, QUEUE_TIMEOUT); on Empty the loop
\* continues (lines 188-189); line 183 compares x with QUEUE_CLOSED
WorkerGet(w) ==
    /\ w_pc[w] = "idle"
    /\ IF in_queue = <<>>
         THEN UNCHANGED <<in_queue, w_pc, w_x, token_obs>>
         ELSE /\ in_queue' = Tail(in_queue)
              /\ w_x' = [w_x EXCEPT ![w] = Head(in_queue)]
              /\ IF Head(in_queue).val = QUEUE_CLOSED
                   THEN /\ w_pc' = [w_pc EXCEPT ![w] = "relay"]
                        /\ token_obs' = [token_obs EXCEPT ![w] = @ + 1]
                   ELSE /\ w_pc' = [w_pc EXCEPT ![w] = "busy"]
                        /\ UNCHANGED token_obs
    /\ UNCHANGED <<inputs, runner, queues, out_queue, pool, feed_pc, fed,
                   session_added, session_commits, session_closes,
                   apply_kwargs, seen_kwargs, acks_emitted, token_puts,
                   foreign_got>>

\* WorkerRelay without the re-put: the Worker keeps the token to itself
WorkerRelay_NoReput(w) ==
    /\ w_pc[w] = "relay"
    /\ w_pc' = [w_pc EXCEPT ![w] = "exited"]
    /\ UNCHANGED <<inputs, runner, channels, w_x, session_added,
                   session_commits, session_closes, apply_kwargs, history>>

\* WorkerRelay that puts the token on the other queue
WorkerRelay_ToControl(w) ==
    /\ w_pc[w] = "relay"
    /\ out_queue' = Append(out_queue, QUEUE_CLOSED)
    /\ w_pc' = [w_pc EXCEPT ![w] = "exited"]
    /\ UNCHANGED <<inputs, runner, queues, in_queue, pool, feed_pc, fed, w_x,
                   session_added, session_commits, session_closes,
                   apply_kwargs, history>>

\* lines 184-185: self.in_queue.put(UDF.QUEUE_CLOSED); break
WorkerRelay(w) ==
    /\ w_pc[w] = "relay"
    /\ in_queue' = Append(in_queue, Token)
    /\ w_pc' = [w_pc EXCEPT ![w] = "exited"]
    /\ UNCHANGED <<inputs, runner, queues, out_queue, pool, feed_pc, fed, w_x,
                   session_added, session_commits, session_closes,
                   apply_kwargs, history>>

\* line 186: self.session.add_all(y for y in self.apply(x, **apply_kwargs));
\* apply either returns its results or raises, and an exception leaves run()
\* (the process ends without commit or close)
WorkerApply(w, ok) ==
    /\ w_pc[w] = "busy"
    /\ seen_kwargs' = seen_kwargs \cup {apply_kwargs[w]}
    /\ IF ok
         THEN /\ session_added' = [session_added EXCEPT ![w] = Append(@, w_x[w])]
              /\ w_pc' = [w_pc EXCEPT ![w] = "applied"]
         ELSE /\ w_pc' = [w_pc EXCEPT ![w] = "crashed"]
              /\ UNCHANGED session_added
    /\ UNCHANGED <<inputs, runner, channels, w_x, session_commits,
                   session_closes, apply_kwargs, acks_emitted, token_puts,
                   token_obs, foreign_got>>

\* WorkerAck that puts the other sentinel on out_queue
WorkerAck_WrongSentinel(w) ==
    /\ w_pc[w] = "applied"
    /\ out_queue' = Append(out_queue, QUEUE_CLOSED)
    /\ acks_emitted' = acks_emitted + 1
    /\ w_pc' = [w_pc EXCEPT ![w] = "idle"]
    /\ UNCHANGED <<inputs, runner, queues, in_queue, pool, feed_pc, fed, w_x,
                   session_added, session_commits, session_closes,
                   apply_kwargs, seen_kwargs, token_puts, token_obs,
                   foreign_got>>

\* line 187: self.out_queue.put(UDF.TASK_DONE)
WorkerAck(w) ==
    /\ w_pc[w] = "applied"
    /\ out_queue' = Append(out_queue, TASK_DONE)
    /\ acks_emitted' = acks_emitted + 1
    /\ w_pc' = [w_pc EXCEPT ![w] = "idle"]
    /\ UNCHANGED <<inputs, runner, queues, in_queue, pool, feed_pc, fed, w_x,
                   session_added, session_commits, session_closes,
                   apply_kwargs, seen_kwargs, token_puts, token_obs,
                   foreign_got>>

\* line 190: self.session.commit()
WorkerCommit(w) ==
    /\ w_pc[w] = "exited"
    /\ session_commits' = [session_commits EXCEPT ![w] = @ + 1]
    /\ w_pc' = [w_pc EXCEPT ![w] = "committed"]
    /\ UNCHANGED <<inputs, runner, channels, w_x, session_added,
                   session_closes, apply_kwargs, history>>

\* line 191: self.session.close(); run() returns
WorkerClose(w) ==
    /\ w_pc[w] = "committed"
    /\ session_closes' = [session_closes EXCEPT ![w] = @ + 1]
    /\ w_pc' = [w_pc EXCEPT ![w] = "stopped"]
    /\ UNCHANGED <<inputs, runner, channels, w_x, session_added,
                   session_commits, apply_kwargs, history>>

\* ----------------------------------------------------------- specification
\* number of tuples parse_by_index yields over the first n indices
RECURSIVE TotalYield(_, _)
TotalYield(ys, n) == IF n = 0 THEN 0 ELSE ys[n - 1] + TotalYield(ys, n - 1)

\* The calls of apply that are explored: every combination of clear,
\* parallelism, progress_bar and **kwargs on a collection of at most one item
\* for which parse_by_index yields at most one tuple; and the call with the
\* default arguments, apply(xs), on every collection of up to MaxN items
\* whose parse_by_index yields up to MaxYield tuples per index and MaxTasks
\* in all.
ApplyCall ==
    \/ \E n \in 0 .. 1, clr \in BOOLEAN, given \in BOOLEAN,
          par \in 0 .. MaxPar, pbar \in BOOLEAN, kw \in KwargChoices :
         \E ys \in [Indices(n) -> 0 .. 1] :
            /\ ~given => par = 0
            /\ Apply(n, ys, clr, given, par, pbar, kw)
    \/ \E n \in 0 .. MaxN :
         \E ys \in [Indices(n) -> 0 .. MaxYield] :
            /\ TotalYield(ys, n) <= MaxTasks
            /\ Apply(n, ys, TRUE, FALSE, 0, TRUE, {})

RunnerNext ==
    \/ ApplyCall
    \/ RunnerClear
    \/ RunnerSetupPb
    \/ RunnerSelect
    \/ RunnerClosePb
    \/ StNew
    \/ \E ok \in BOOLEAN : StStep(ok)
    \/ StCommit
    \/ MtCheck
    \/ MtQueues
    \/ MtConstruct
    \/ MtStart
    \/ MtPool
    \/ MtDrainGet
    \/ MtDrainExit
    \/ MtPoolJoin
    \/ MtShutdown
    \/ MtJoin
    \/ MtTerminate

FeederNext ==
    \E i \in Indices(xs_len) :
        \/ FeederTake(i)
        \/ FeederPut(i)

WorkerNext ==
    \E w \in Workers :
        \/ WorkerGet(w)
        \/ WorkerRelay(w)
        \/ \E ok \in BOOLEAN : WorkerApply(w, ok)
        \/ WorkerAck(w)
        \/ WorkerCommit(w)
        \/ WorkerClose(w)

Next == RunnerNext \/ FeederNext \/ WorkerNext

Spec == Init /\ [][Next]_vars

\* A transformation that breaks its contract: its apply() writes a value of
\* its own to self.out_queue (the UDF holds the handle, line 163) and then
\* returns its results as usual.
WorkerApplyForeign(w) ==
    /\ w_pc[w] = "busy"
    /\ out_queue' = Append(out_queue, FOREIGN)
    /\ seen_kwargs' = seen_kwargs \cup {apply_kwargs[w]}
    /\ session_added' = [session_added EXCEPT ![w] = Append(@, w_x[w])]
    /\ w_pc' = [w_pc EXCEPT ![w] = "applied"]
    /\ UNCHANGED <<inputs, runner, queues, in_queue, pool, feed_pc, fed, w_x,
                   session_commits, session_closes, apply_kwargs,
                   acks_emitted, token_puts, token_obs, foreign_got>>

ForeignNext == Next \/ \E w \in Workers : WorkerApplyForeign(w)

\* the program with transformations that may write to the control channel
SpecForeign == Init /\ [][ForeignNext]_vars

\* The program under the scheduling the code can count on: the Runner and
\* the pool's feeder processes run whenever they can, and so do a Worker's
\* own queue operations (get, re-put, acknowledge). Nothing makes a Worker's
\* transformation return or its store commit and close come back: a Worker
\* may stay in any of them for ever.
SpecFair ==
    /\ Init /\ [][Next]_vars
    /\ WF_vars(RunnerNext)
    /\ WF_vars(FeederNext)
    /\ \A w \in Workers :
          WF_vars(WorkerGet(w) \/ WorkerRelay(w) \/ WorkerAck(w))

\* no step of the program can change the state any more
Terminal == ~ENABLED <<Next>>_vars

\* ================================================================ claims
\* the UDF objects of the pooled run: worker_id 0 .. parallelism - 1
RunWorkers == {w \in Workers : w < parallelism}

\* number of QUEUE_CLOSED items in a queue
TokensIn(q) == Cardinality({j \in 1 .. Len(q) : q[j].val = QUEUE_CLOSED})

\* number of tuples the feeder tasks have put on in_queue
TasksFed == IF pool = "none" THEN 0
            ELSE Cardinality({<<i, k>> \in Indices(xs_len) \X (0 .. MaxYield) :
                                k < fed[i]})

\* ---------------------------------------------------------------- C1
\* C1 (as claimed): when apply has returned, a pooled run has emitted exactly
\* len(xs) acknowledgments and its counter stands at len(xs), and a
\* single-threaded run has processed exactly len(xs) items.
C1_ExactlyNAcks ==
    pc = "returned" =>
        /\ mode = "mt" => acks_emitted = xs_len /\ count_parsed = xs_len
        /\ mode = "st" => Len(session_added[0]) = xs_len

\* ---------------------------------------------------------------- C2
\* C2 (as claimed): a pooled run never comes to rest before every Worker that
\* was started has stopped with its session committed once and closed once,
\* and the Runner has returned.
C2_WorkersStopNoDeadlock ==
    (mode = "mt" /\ error = "none" /\ Terminal) =>
        /\ pc = "returned"
        /\ \A w \in Workers :
              Started(w) => /\ w_pc[w] = "stopped"
                            /\ session_commits[w] = 1
                            /\ session_closes[w] = 1

C4_ClearOnceBeforeWork ==
    /\ clear_calls <= 1
    /\ ~clear => clear_calls = 0
    /\ (clear /\ pc \notin {"ready", "clear"}) => clear_calls = 1
    /\ clear_calls = 1 => clear_kwargs = kwargs
    /\ (clear /\ clear_calls = 0) =>
          /\ \A w \in Workers : w_pc[w] = "absent" /\ session_added[w] = <<>>
          /\ ~queues /\ in_queue = <<>> /\ pool = "none"
          /\ seen_kwargs = {}

\* a pooled run with clear=true has returned after processing a task
C4_Witness ==
    /\ clear /\ clear_calls = 1 /\ mode = "mt" /\ pc = "returned"
    /\ \E w \in Workers : session_added[w] # <<>>

\* ---------------------------------------------------------------- C5
\* C5: whenever the Runner takes a message that is not the acknowledgment off
\* the control channel, that very step leaves apply with the protocol error
\* and without counting; it happens at most once per run; and once apply has
\* raised, the Runner takes nothing more off the control channel and neither
\* its counter nor the progress bar moves again.
C5_ProtocolViolationAborts ==
    /\ [](foreign_got > 0 =>
            pc = "raised" /\ error = "protocol" /\ foreign_got = 1)
    /\ [][(/\ pc = "mt_drain"
           /\ out_queue # <<>>
           /\ Head(out_queue) # TASK_DONE
           /\ out_queue' = Tail(out_queue))
          => (/\ pc' = "raised"
              /\ error' = "protocol"
              /\ count_parsed' = count_parsed)]_vars
    /\ [][pc = "raised" =>
            /\ pc' = "raised"
            /\ count_parsed' = count_parsed
            /\ pb_n' = pb_n
            /\ Len(out_queue') >= Len(out_queue)]_vars

\* the Runner has counted one acknowledgment, then met a foreign message and
\* raised, leaving a later message on the control channel
C5_Witness ==
    /\ pc = "raised" /\ error = "protocol"
    /\ count_parsed = 1 /\ foreign_got = 1
    /\ out_queue # <<>>

\* ---------------------------------------------------------------- C6
\* C6: when apply has raised the configuration error, it was a pooled call
\* on a backend without concurrent connections and nothing of the pooled run
\* exists: no UDF constructed or started, no queue, no pool, no task
\* enqueued; a pooled call on such a backend never gets past the check; and
\* a single-threaded call never raises the configuration error.
C6_ConfigErrorBeforeAnyWork ==
    /\ error = "config" =>
          /\ pc = "raised" /\ mode = "mt" /\ ~postgres
          /\ \A w \in Workers : w_pc[w] = "absent"
          /\ udfs = <<>>
          /\ ~queues /\ in_queue = <<>> /\ out_queue = <<>>
          /\ pool = "none" /\ TasksFed = 0
          /\ acks_emitted = 0 /\ seen_kwargs = {}
    /\ (mode = "mt" /\ ~postgres) =>
          /\ pc \in {"mt_check", "raised"}
          /\ pc = "raised" => error = "config"
    /\ mode = "st" => error # "config"

\* a pooled call on a backend without concurrent connections has raised
C6_Witness == pc = "raised" /\ error = "config" /\ parallelism = MaxPar

\* ---------------------------------------------------------------- C7
\* C7: in single-threaded mode there is exactly one UDF object, never
\* started; the items whose results are in its session are the first loop_i
\* items of the collection in collection order; no queue, pool, sentinel or
\* acknowledgment exists; the session is committed at most once and only
\* when every item has been applied, and exactly once when apply returns.
C7_SingleThreadedInOrder ==
    mode = "st" =>
        /\ \A w \in Workers : w # 0 => w_pc[w] = "absent"
        /\ w_pc[0] \in {"absent", "new"}
        /\ pc \notin {"st_new"} => w_pc[0] = "new"
        /\ Len(session_added[0]) = loop_i
        /\ \A j \in 1 .. Len(session_added[0]) :
              session_added[0][j].index = j - 1
        /\ ~queues /\ in_queue = <<>> /\ out_queue = <<>> /\ pool = "none"
        /\ udfs = <<>> /\ token_puts = 0 /\ acks_emitted = 0
        /\ session_commits[0] <= 1
        /\ session_commits[0] = 1 => loop_i = xs_len
        /\ pc = "returned" => session_commits[0] = 1
        /\ pc = "raised" => session_commits[0] = 0

\* a single-threaded run over the largest collection has returned
C7_Witness ==
    /\ mode = "st" /\ pc = "returned" /\ xs_len = MaxN
    /\ Len(session_added[0]) = MaxN /\ session_commits[0] = 1

C9_ExactlyNTasksFed ==
    pool = "joined" =>
        /\ \A i \in Indices(xs_len) : fed[i] = 1
        /\ TasksFed = xs_len

\* ---------------------------------------------------------------- C10
\* C10 (as claimed): every transformation invocation received exactly the
\* pass-through keyword arguments of the call.
C10_KwargsVerbatim == seen_kwargs \subseteq {kwargs}

\* C10 (amended): every transformation invocation received the pass-through
\* keyword arguments of the call, unchanged, together with the one key
\* "clear" bound to the call's clear flag; the invalidation hook received
\* exactly the pass-through keyword arguments.
C10_KwargsPlusClear ==
    /\ seen_kwargs \subseteq {kwargs \cup {<<"clear", BoolStr(clear)>>}}
    /\ \A w \in Workers :
          (mode = "mt" /\ w_pc[w] # "absent") =>
              apply_kwargs[w] = kwargs \cup {<<"clear", BoolStr(clear)>>}
    /\ clear_calls > 0 => clear_kwargs = kwargs

\* a pooled run called with clear=false and a keyword argument has applied
\* the transformation
C10_Witness ==
    /\ mode = "mt" /\ ~clear /\ kwargs # {}
    /\ seen_kwargs = {kwargs \cup {<<"clear", "False">>}}

\* ---------------------------------------------------------------- C11
\* the tuples the feeder tasks have put on in_queue
FedTasks == IF pool = "none" THEN {}
            ELSE {Task(i, k) : <<i, k>> \in
                    {p \in Indices(xs_len) \X (0 .. MaxYield) : p[2] < fed[p[1]]}}

\* how often item t is waiting in in_queue
InQueueCount(t) == Cardinality({j \in 1 .. Len(in_queue) : in_queue[j] = t})

\* how many Workers have received t and not yet added its results (the
\* transformation is running on it, or has failed on it)
HeldCount(t) ==
    Cardinality({w \in Workers : w_pc[w] \in {"busy", "crashed"} /\ w_x[w] = t})

\* the <<worker, position>> places of the sessions that hold results
AddedPlaces == {p \in Workers \X (1 .. (MaxTasks + 1)) :
                  p[2] <= Len(session_added[p[1]])}

\* how often the results of t were added to a session
AddedCount(t) ==
    Cardinality({p \in AddedPlaces : session_added[p[1]][p[2]] = t})

\* number of tasks waiting in in_queue
TasksWaiting ==
    Cardinality({j \in 1 .. Len(in_queue) : in_queue[j].val # QUEUE_CLOSED})

\* C11: in a pooled run every task the Feeder pushed is in exactly one place:
\* waiting in the input channel once, or received by exactly one Worker that
\* is applying it (or failed on it), or applied once with its results in the
\* session of exactly one Worker; nothing else is in a session; the
\* acknowledgments emitted are exactly the applied tasks less those whose
\* Worker has added the results and not yet acknowledged, hence one per
\* applied task and only after the add; they never exceed the tasks
\* dequeued; and when the run returns with no Worker dead, every pushed task
\* has been applied.
C11_ExactlyOnceOneAck ==
    mode = "mt" =>
        /\ \A t \in FedTasks :
              InQueueCount(t) + HeldCount(t) + AddedCount(t) = 1
        /\ \A p \in AddedPlaces : session_added[p[1]][p[2]] \in FedTasks
        /\ \A w \in Workers :
              w_pc[w] = "applied" =>
                  /\ session_added[w] # <<>>
                  /\ session_added[w][Len(session_added[w])] = w_x[w]
        /\ acks_emitted + Cardinality({w \in Workers : w_pc[w] = "applied"})
             = Cardinality(AddedPlaces)
        /\ acks_emitted <= Cardinality(FedTasks) - TasksWaiting
        /\ Len(out_queue) + count_parsed = acks_emitted
        /\ (pc = "returned" /\ \A w \in Workers : w_pc[w] # "crashed") =>
              \A t \in FedTasks : AddedCount(t) = 1

\* a pooled run has returned in which each of two Workers received, applied
\* and acknowledged one of the two tasks pushed
C11_Witness ==
    /\ mode = "mt" /\ pc = "returned" /\ Cardinality(FedTasks) = 2
    /\ Len(session_added[0]) = 1 /\ Len(session_added[1]) = 1
    /\ session_added[0] # session_added[1]
    /\ acks_emitted = 2

\* ---------------------------------------------------------------- C12
\* C12: the Runner pushes the token at most once, has not pushed it before
\* line 141 and has pushed it exactly once from there to the return; when it
\* pushes it the counter stands at len(xs) and every feeder task has put all
\* its tuples and returned; no task is behind a token in the input channel;
\* and from the moment a Worker has observed the token no task is waiting in
\* the channel.
C12_TokenOnceAfterDrainAndFeed ==
    /\ token_puts <= 1
    /\ token_puts = 1 <=>
          (mode = "mt" /\ pc \in {"mt_join", "mt_terminate", "pb_close",
                                  "returned"})
    /\ token_puts = 1 =>
          /\ count_parsed = xs_len
          /\ pool = "joined"
          /\ \A i \in Indices(xs_len) :
                feed_pc[i] = "done" /\ fed[i] = yields[i]
    /\ \A j, k \in 1 .. Len(in_queue) :
          (j < k /\ in_queue[j].val = QUEUE_CLOSED) =>
              in_queue[k].val = QUEUE_CLOSED
    /\ (\E w \in Workers : token_obs[w] > 0) => TasksWaiting = 0

\* the Runner has pushed the token while a task is still waiting in the
\* channel, and the token is behind it
C12_Witness ==
    /\ token_puts = 1 /\ Len(in_queue) = 2
    /\ in_queue[1].val # QUEUE_CLOSED /\ in_queue[2] = Token

\* ---------------------------------------------------------------- C13
\* C13 (as claimed): once the transformation has failed inside a Worker of a
\* pooled run, that Worker has neither committed nor closed its session, and
\* the Runner is in the drain loop with its counter below len(xs), has not
\* pushed the token, and apply has neither returned nor raised.
C13_CrashBlocksDrainForever ==
    (mode = "mt" /\ \E w \in Workers : w_pc[w] = "crashed") =>
        /\ \A w \in Workers :
              w_pc[w] = "crashed" =>
                  session_commits[w] = 0 /\ session_closes[w] = 0
        /\ pc = "mt_drain"
        /\ count_parsed < xs_len
        /\ token_puts = 0
        /\ error = "none"

\* ---------------------------------------------------------------- C14
\* C14 (as claimed): whenever no run is in progress (before apply is called,
\* after it has returned and after it has raised, the configuration error and
\* the protocol violation included) self.udfs is empty, so that the next
\* pooled run starts and joins only the Workers it constructs itself; and
\* while a pooled run is past its start loop, self.udfs holds exactly
\* `parallelism` Workers, all constructed and started by this run.
C14_WorkersFreshAndReset ==
    /\ pc \in {"ready", "returned", "raised"} => udfs = <<>>
    /\ (mode = "mt" /\ pc \in {"mt_pool", "mt_drain", "mt_pool_join",
                               "mt_shutdown", "mt_join", "mt_terminate"}) =>
          /\ Len(udfs) = parallelism
          /\ \A j \in 1 .. Len(udfs) : udfs[j] = j - 1 /\ Started(udfs[j])

\* ---------------------------------------------------------------- C15
\* C15: count_parsed is 0 until the drain loop, always between 0 and
\* len(xs); a step changes it only by adding 1, and only a step of the Runner
\* in the drain loop that takes TASK_DONE off the head of out_queue; and
\* nothing is ever taken off out_queue except by the Runner in the drain
\* loop while count_parsed is below len(xs).
C15_CounterMonotoneBounded ==
    /\ [](/\ count_parsed >= 0
          /\ count_parsed <= xs_len
          /\ pc \in {"ready", "clear", "pb_setup", "select", "mt_check",
                     "mt_queues", "mt_construct", "mt_start", "mt_pool"}
                => count_parsed = 0)
    /\ [][count_parsed' # count_parsed =>
            /\ count_parsed' = count_parsed + 1
            /\ pc = "mt_drain"
            /\ out_queue # <<>>
            /\ Head(out_queue) = TASK_DONE
            /\ out_queue' = Tail(out_queue)]_vars
    /\ [][Len(out_queue') < Len(out_queue) =>
            /\ pc = "mt_drain"
            /\ count_parsed < xs_len
            /\ out_queue' = Tail(out_queue)]_vars

\* a pooled run has returned with its counter at len(xs) and a further
\* acknowledgment left untaken on the control channel
C15_Witness ==
    /\ mode = "mt" /\ pc = "returned"
    /\ xs_len > 0 /\ count_parsed = xs_len
    /\ out_queue # <<>>

C17_ShutdownCompletes ==
    (mode = "mt" /\ pc = "mt_join") ~>
        (udfs = <<>> /\ pc \in {"pb_close", "returned"})

\* ---------------------------------------------------------------- C18
\* C18: every message on the control channel is TASK_DONE; the channel grows
\* only by a Worker that has just added a task's results putting TASK_DONE;
\* the Runner never takes a message that is not TASK_DONE and never raises
\* the protocol error; and every message taken off the channel adds 1 to the
\* Runner's counter.
C18_OnlyAcksOnControlChannel ==
    /\ [](/\ \A j \in 1 .. Len(out_queue) : out_queue[j] = TASK_DONE
          /\ foreign_got = 0
          /\ error # "protocol")
    /\ [][Len(out_queue') > Len(out_queue) =>
            /\ out_queue' = Append(out_queue, TASK_DONE)
            /\ acks_emitted' = acks_emitted + 1
            /\ \E w \in Workers : w_pc[w] = "applied" /\ w_pc'[w] = "idle"]_vars
    /\ [][Len(out_queue') < Len(out_queue) =>
            count_parsed' = count_parsed + 1]_vars

\* the Runner is in the drain loop and has taken and counted every
\* acknowledgment of the largest collection
C18_Witness ==
    /\ mode = "mt" /\ pc = "mt_drain" /\ xs_len = MaxN
    /\ count_parsed = MaxN /\ acks_emitted = MaxN /\ out_queue = <<>>

\* ---------------------------------------------------------------- C19
\* C19 (as claimed): in a pooled run a Worker commits at most once and only
\* after it has observed the token; while the Runner is in the drain loop no
\* Worker has committed; and when apply has returned, every task's results
\* are in the session of exactly one Worker and that Worker has committed.
C19_CommittedAtReturn ==
    mode = "mt" =>
        /\ \A w \in Workers :
              /\ session_commits[w] <= 1
              /\ session_commits[w] = 1 => token_obs[w] = 1
        /\ pc = "mt_drain" => \A w \in Workers : session_commits[w] = 0
        /\ pc = "returned" =>
              \A t \in FedTasks :
                  \E p \in AddedPlaces :
                      /\ session_added[p[1]][p[2]] = t
                      /\ session_commits[p[1]] = 1

\* ---------------------------------------------------------------- C20
\* C20: when a call with clear=true has reached the backend check of
\* apply_mt, and when it has raised the configuration error, clear() has
\* already been called (once, with the call's keyword arguments): the
\* rejected call has invalidated the downstream state.
C20_ClearedBeforeConfigError ==
    /\ (clear /\ pc = "mt_check") => clear_calls = 1
    /\ (clear /\ error = "config") =>
          /\ pc = "raised"
          /\ clear_calls = 1
          /\ clear_kwargs = kwargs
    /\ (~clear /\ error = "config") => clear_calls = 0

\* a pooled call with clear=true was rejected with the configuration error
\* after clear() had run
C20_Witness ==
    /\ clear /\ ~postgres /\ pc = "raised" /\ error = "config"
    /\ clear_calls = 1

====
